---------------------------- MODULE Spec2Model ----------------------------
(***************************************************************************)
(* The /compare endpoint of the attendance AI service, in its two          *)
(* implementations:                                                        *)
(*   "ai_service"  ai_service/main.py  compare_faces (running-maximum loop)*)
(*   "ai-service"  ai-service/main.py  compare_faces (sklearn matrix and   *)
(*                                     np.argmax)                          *)
(* One behaviour is one call.  Scores are integers in units of 1e-5, so    *)
(* 1.0 is 100000 and round(x, 4) rounds to a multiple of 10.  A float NaN  *)
(* is the value NaN, which every comparison answers FALSE for.             *)
(*                                                                         *)
(* Further specifications over the same variables:                         *)
(*   SpecTwice    the matcher run twice on one input                       *)
(*   SpecBoth     the two matchers on one input                            *)
(*   SpecUtil     the pure functions of app/utils/similarity.py and        *)
(*                ai-service/utils.py                                      *)
(*   SpecServing  the endpoints of ai_service sharing one recognizer       *)
(*   SpecBackend  app/utils/backend_integration.py                         *)
(*   SpecService  startup, the readiness gate, /analyze and enrollment     *)
(***************************************************************************)
EXTENDS Integers, Sequences, FiniteSets, TLC

VARIABLES
    service,              \* which implementation serves the call
    pc,                   \* position of the handler
    reference_embeddings, \* data['referenceEmbeddings']: seq of embeddings
    student_ids,          \* data['studentIds']
    threshold,            \* data['threshold']
    detected_faces,       \* number of faces the detector returned
    detected_embeddings,  \* embeddings extracted from the detected faces
    valid_face_indices,   \* detection index of each extracted embedding
    matches,              \* the matches list being built
    matched_student_ids,  \* the set of consumed student ids
    det_idx,              \* index of the face being processed (0-based)
    ref_idx,              \* index of the roster entry being scanned (0-based)
    best_match_idx,       \* running best roster index of the current face
    best_similarity,      \* running best similarity of the current face
    response,             \* the response of the call, NoResponse until it ends
    scan,                 \* history: first maximum of the scores of the face
                          \* being processed, and the students reaching the
                          \* threshold for it
    best_log,             \* history: the scan of each processed face
    scores_computed,      \* history: number of similarity scores computed
    image_read,           \* history: the upload's bytes have been read
    detector_ran,         \* history: face detection has returned
    fn,                   \* the utility function called on its own, or "none"
    args,                 \* its arguments
    result,               \* the value it returned
    run,                  \* 0: a single call; 1, 2: the first and the second
                          \* run of the matcher on one input
    cos_log,              \* the true cosines read by the first run, by face
    first_response,       \* the response of the first run
    face_database,        \* recognizer.face_database of the shared recognizer:
                          \* the ids of the enrolled students
    calls,                \* the requests being served side by side
    face_recognizer,      \* main.py's global face_recognizer: "None" or "ready"
    lifespan,             \* position of the application between startup and
                          \* shutdown
    startup_log,          \* history: the steps of startup_event that completed
    backend_integration,  \* backend_integration.py's global: 0 for None, or
                          \* the position of the instance in instances
    instances,            \* the session attribute of each BackendIntegration
                          \* created: 0 for None, or a position in sessions
    sessions              \* each aiohttp ClientSession created: "open" or
                          \* "closed"

vars == <<service, pc, reference_embeddings, student_ids, threshold,
          detected_faces, detected_embeddings, valid_face_indices,
          matches, matched_student_ids, det_idx, ref_idx,
          best_match_idx, best_similarity, response, scan, best_log,
          scores_computed, image_read, detector_ran, fn, args, result,
          run, cos_log, first_response, face_database, calls,
          face_recognizer, lifespan, startup_log, backend_integration,
          instances, sessions>>

lifecyclevars ==
    <<face_recognizer, lifespan, startup_log, backend_integration,
      instances, sessions>>

(***************************************************************************)
(* Bounds of the model.                                                    *)
(***************************************************************************)
MaxFaces == 2
MaxRoster == 2

(***************************************************************************)
(* Program constants.                                                      *)
(***************************************************************************)
DefaultThreshold == 60000
DefaultDetectedDim == 512
DefaultReferenceDim == 128
InitialBestSimilarity == -100000
InitialBestMatchIdx == -1
FacenetDim == 128
EMBEDDING_DIM == 512
RoundUnit == 10

NaN == 999999

Services == {"ai_service", "ai-service"}
StudentIdSet == {"S0", "S1"}
Dims == {DefaultReferenceDim, DefaultDetectedDim}
Kinds == {"ok", "zero", "nonfinite"}
\* true cosine values of pairs of non-zero embeddings: -1.0 (the lowest
\* cosine, below every threshold above -1.0), 0.60004 (rounded down by
\* round(x, 4)), 0.9 and 0.95
Scores == {-100000, 60004, 90000, 95000}
\* the cosines drawn when the matcher is run twice: -1.0 and 0.95
ReplayScores == {-100000, 95000}
\* thresholds a request carries: the default 0.6, 0.60003 and -1.0
Thresholds == {DefaultThreshold, 60003, -100000}

\* the length of the embeddings the service's own face model produces
RecognizerDim(s) == IF s = "ai_service" THEN EMBEDDING_DIM ELSE FacenetDim

\* an embedding is its length and whether its values are ordinary ("ok"),
\* all zero ("zero") or contain a NaN or an infinity ("nonfinite": json.loads
\* accepts NaN and Infinity).  The values of a reference embedding of
\* another length than the recognizer's are never read (the length test or
\* the product fails first), so only the reference embeddings of the
\* recognizer's length are drawn with special values; the face model's own
\* embeddings are ordinary
Embeddings == [dim : Dims, kind : Kinds]

RequestEmbeddings(s) ==
    {e \in Embeddings : e.kind # "ok" => e.dim = RecognizerDim(s)}

ExtractedEmbedding(s) == [dim |-> RecognizerDim(s), kind |-> "ok"]

SeqsUpTo(S, n) == UNION {[1..k -> S] : k \in 0..n}

(***************************************************************************)
(* Float comparisons: a comparison with NaN is False.                      *)
(***************************************************************************)
FloatGt(a, b) == a # NaN /\ b # NaN /\ a > b
FloatGe(a, b) == a # NaN /\ b # NaN /\ a >= b

\* Python list indexing, a negative index counting from the end
PyIndex(list, i) == IF i >= 0 THEN list[i + 1] ELSE list[Len(list) + i + 1]

\* round(x, 4): to the nearest multiple of RoundUnit, ties to even
Round4(x) ==
    LET q == x \div RoundUnit
        r == x % RoundUnit
    IN  IF 2 * r < RoundUnit THEN RoundUnit * q
        ELSE IF 2 * r > RoundUnit THEN RoundUnit * (q + 1)
        ELSE IF q % 2 = 0 THEN RoundUnit * q ELSE RoundUnit * (q + 1)

(***************************************************************************)
(* Responses.                                                              *)
(***************************************************************************)
NoResponse ==
    [status |-> 0, error |-> "none", body |-> FALSE, facesDetected |-> 0,
     validEmbeddings |-> 0, totalMatches |-> 0, matches |-> <<>>,
     unmatchedFaces |-> 0]

\* raise HTTPException(status_code, detail): no report fields
HTTPError(code, kind) ==
    [status |-> code, error |-> kind, body |-> FALSE, facesDetected |-> 0,
     validEmbeddings |-> 0, totalMatches |-> 0, matches |-> <<>>,
     unmatchedFaces |-> 0]

\* JSONResponse(content={...}) carrying the report fields
Report(code, kind, fd, ve, ms, um) ==
    [status |-> code, error |-> kind, body |-> TRUE, facesDetected |-> fd,
     validEmbeddings |-> ve, totalMatches |-> Len(ms), matches |-> ms,
     unmatchedFaces |-> um]

(***************************************************************************)
(* The selection the matching policy asks for, kept as history beside the  *)
(* code's own variables: scanning a face's scores in roster order, the     *)
(* first occurrence of the highest defined score (idx is -1 and sim is NaN *)
(* while no score is defined) and the set of students whose score reaches  *)
(* the threshold.                                                          *)
(***************************************************************************)
ScanStart == [idx |-> -1, sim |-> NaN, qual |-> {}]

ScanStep(g, s, i) ==
    [idx  |-> IF s # NaN /\ (g.sim = NaN \/ s > g.sim) THEN i ELSE g.idx,
     sim  |-> IF s # NaN /\ (g.sim = NaN \/ s > g.sim) THEN s ELSE g.sim,
     qual |-> IF FloatGe(s, threshold)
              THEN g.qual \cup {student_ids[i + 1]} ELSE g.qual]

RECURSIVE ScanFrom(_, _, _)
ScanFrom(g, r, i) ==
    IF i >= Len(r) THEN g ELSE ScanFrom(ScanStep(g, r[i + 1], i), r, i + 1)

ScanRow(r) == ScanFrom(ScanStart, r, 0)

\* what is kept of a finished scan: the position of the first maximum,
\* whether its score reaches the threshold, and whether a student other than
\* the one at the first maximum reaches the threshold
LogEntry(g) ==
    [idx |-> g.idx,
     ok  |-> FloatGe(g.sim, threshold),
     alt |-> g.idx >= 0 /\ g.qual \ {student_ids[g.idx + 1]} # {}]

\* no utility function is being called
NoArgs == [none |-> TRUE]

\* the application started, its recognizer ready, no backend integration
\* created yet
LifecycleIdle ==
    /\ face_recognizer = "ready"
    /\ lifespan = "serving"
    /\ startup_log = <<>>
    /\ backend_integration = 0
    /\ instances = <<>>
    /\ sessions = <<>>

\* the state when a request arrives; mode is 0 for a single call and 1 when
\* the matcher is to be run a second time on the same input
InitCall(mode) ==
    /\ service \in Services
    /\ pc = "received"
    /\ reference_embeddings \in SeqsUpTo(RequestEmbeddings(service), MaxRoster)
    /\ student_ids \in SeqsUpTo(StudentIdSet, MaxRoster)
    /\ threshold \in Thresholds
    /\ detected_faces = 0
    /\ detected_embeddings = <<>>
    /\ valid_face_indices = <<>>
    /\ matches = <<>>
    /\ matched_student_ids = {}
    /\ det_idx = 0
    /\ ref_idx = 0
    /\ best_match_idx = InitialBestMatchIdx
    /\ best_similarity = InitialBestSimilarity
    /\ response = NoResponse
    /\ scan = ScanStart
    /\ best_log = <<>>
    /\ scores_computed = 0
    /\ image_read = FALSE
    /\ detector_ran = FALSE
    /\ fn = "none"
    /\ args = NoArgs
    /\ result = 0
    /\ run = mode
    /\ cos_log = <<>>
    /\ first_response = NoResponse
    /\ face_database = {}
    /\ calls = <<>>
    /\ LifecycleIdle

Init == InitCall(0)

\* the call ends with response r
Finish(r) == pc' = "done" /\ response' = r

(***************************************************************************)
(* ai_service/main.py compare_faces                                        *)
(***************************************************************************)

\* faulty variant, used to show the property is sensitive: the emptiness test of the roster is dropped
RequestErrorNoEmptyCheck(refs, ids) ==
    IF Len(refs) # Len(ids) THEN "length_mismatch" ELSE "none"

\* faulty variant, used to show the property is sensitive: the comparison of the two lengths is dropped
RequestErrorNoLengthCheck(refs, ids) ==
    IF Len(refs) = 0 \/ Len(ids) = 0 THEN "missing_reference" ELSE "none"

\* the two request checks made before anything else
RequestError(refs, ids) ==
    IF Len(refs) = 0 \/ Len(ids) = 0 THEN "missing_reference"
    ELSE IF Len(refs) # Len(ids) THEN "length_mismatch"
    ELSE "none"

ValidateRequest ==
    /\ service = "ai_service"
    /\ pc = "received"
    /\ LET e == RequestError(reference_embeddings, student_ids)
       IN  IF e # "none" THEN Finish(HTTPError(400, e))
           ELSE pc' = "validated" /\ UNCHANGED response
    /\ UNCHANGED lifecyclevars
    /\ UNCHANGED <<face_database, calls, fn, args, result, run, cos_log, first_response>>
    /\ UNCHANGED <<service, reference_embeddings, student_ids, threshold,
                   detected_faces, detected_embeddings, valid_face_indices,
                   matches, matched_student_ids, det_idx,
                   ref_idx, best_match_idx, best_similarity, scan, best_log,
                   scores_computed, image_read, detector_ran>>

\* content-type check, file.read(), load_image_from_bytes
ReadImage ==
    /\ service = "ai_service"
    /\ pc = "validated"
    /\ \E outcome \in {"not_image", "invalid_image", "ok"} :
         CASE outcome = "not_image" ->
                /\ Finish(HTTPError(400, "not_image"))
                /\ UNCHANGED image_read
           [] outcome = "invalid_image" ->
                /\ Finish(HTTPError(400, "invalid_image"))
                /\ image_read' = TRUE
           [] outcome = "ok" ->
                /\ pc' = "image_loaded"
                /\ image_read' = TRUE
                /\ UNCHANGED response
    /\ UNCHANGED lifecyclevars
    /\ UNCHANGED <<face_database, calls, fn, args, result, run, cos_log, first_response>>
    /\ UNCHANGED <<service, reference_embeddings, student_ids, threshold,
                   detected_faces, detected_embeddings, valid_face_indices,
                   matches, matched_student_ids, det_idx,
                   ref_idx, best_match_idx, best_similarity, scan, best_log,
                   scores_computed, detector_ran>>

\* faulty variant, used to show the property is sensitive: no detected face is answered as an error
NoFaceReportAsError == Report(400, "no_faces", 0, 0, <<>>, 0)

\* the report returned when no face is detected
NoFaceReport == Report(200, "none", 0, 0, <<>>, 0)

\* recognizer.detect_faces(image) and the early return on no face
DetectFaces ==
    /\ service = "ai_service"
    /\ pc = "image_loaded"
    /\ \E n \in 0..MaxFaces :
         /\ detected_faces' = n
         /\ IF n = 0
            THEN Finish(NoFaceReport)
            ELSE pc' = "extract" /\ UNCHANGED response
    /\ detector_ran' = TRUE
    /\ UNCHANGED lifecyclevars
    /\ UNCHANGED <<face_database, calls, fn, args, result, run, cos_log, first_response>>
    /\ UNCHANGED <<service, reference_embeddings, student_ids, threshold,
                   detected_embeddings, valid_face_indices,
                   matches, matched_student_ids, det_idx, ref_idx,
                   best_match_idx, best_similarity, scan, best_log,
                   scores_computed, image_read>>

\* faulty variant, used to show the property is sensitive: the indices are recorded in decreasing order
SortedSeqDescending(S) ==
    CHOOSE s \in [1..Cardinality(S) -> S] :
        \A i, j \in 1..Cardinality(S) : i < j => s[i] > s[j]

\* the increasing sequence of the members of a set of numbers
SortedSeq(S) ==
    CHOOSE s \in [1..Cardinality(S) -> S] :
        \A i, j \in 1..Cardinality(S) : i < j => s[i] < s[j]

\* the loop over detected_faces calling recognizer.extract_embedding: the
\* faces in `valid` yield an embedding, the others yield None and are skipped
ExtractEmbeddings ==
    /\ service = "ai_service"
    /\ pc = "extract"
    /\ \E valid \in SUBSET (0..(detected_faces - 1)) :
         /\ valid_face_indices' = SortedSeq(valid)
         /\ detected_embeddings' =
              [k \in 1..Cardinality(valid) |-> ExtractedEmbedding(service)]
    /\ pc' = "check_dims"
    /\ UNCHANGED lifecyclevars
    /\ UNCHANGED <<face_database, calls, fn, args, result, run, cos_log, first_response>>
    /\ UNCHANGED <<service, reference_embeddings, student_ids, threshold,
                   detected_faces, matches,
                   matched_student_ids, det_idx, ref_idx, best_match_idx,
                   best_similarity, response, scan, best_log,
                   scores_computed, image_read, detector_ran>>

\* detected_dim and reference_dim: the dimension of the first embedding of
\* each collection, with a default when the collection is empty
DetectedDim(dets) ==
    IF Len(dets) > 0 THEN dets[1].dim ELSE DefaultDetectedDim

ReferenceDim(refs) ==
    IF Len(refs) > 0 THEN refs[1].dim ELSE DefaultReferenceDim

\* faulty variant, used to show the property is sensitive: the consumed set of an earlier run is kept
StaleMatchedStudentIds == matched_student_ids

\* `matched_student_ids = set()` (`matched_students = set()` in ai-service)
NewMatchedStudentIds == {}

\* faulty variant, used to show the property is sensitive: the first face is reported as the first student
DimensionMismatchReportWithMatch ==
    Report(400, "dimension_mismatch", detected_faces, 0,
           <<[studentId |-> student_ids[1], confidence |-> 0, faceIndex |-> 0]>>,
           Len(detected_embeddings))

\* the 400 report returned when the two dimensions differ
DimensionMismatchReport ==
    Report(400, "dimension_mismatch", detected_faces, 0, <<>>,
           Len(detected_embeddings))

CheckDimensions ==
    /\ service = "ai_service"
    /\ pc = "check_dims"
    /\ IF DetectedDim(detected_embeddings) # ReferenceDim(reference_embeddings)
       THEN Finish(DimensionMismatchReport)
       ELSE pc' = "next_face" /\ UNCHANGED response
    /\ matches' = <<>>
    /\ matched_student_ids' = NewMatchedStudentIds
    /\ det_idx' = 0
    /\ UNCHANGED lifecyclevars
    /\ UNCHANGED <<face_database, calls, fn, args, result, run, cos_log, first_response>>
    /\ UNCHANGED <<service, reference_embeddings, student_ids, threshold,
                   detected_faces, detected_embeddings, valid_face_indices,
                   ref_idx, best_match_idx, best_similarity,
                   scan, best_log, scores_computed, image_read, detector_ran>>

\* head of `for det_idx, detected_emb in enumerate(detected_embeddings)`
BeginFace ==
    /\ service = "ai_service"
    /\ pc = "next_face"
    /\ IF det_idx < Len(detected_embeddings)
       THEN /\ pc' = "scan"
            /\ best_match_idx' = InitialBestMatchIdx
            /\ best_similarity' = InitialBestSimilarity
            /\ ref_idx' = 0
            /\ scan' = ScanStart
       ELSE /\ pc' = "respond"
            /\ scan' = ScanStart
            /\ UNCHANGED <<best_match_idx, best_similarity, ref_idx>>
    /\ UNCHANGED lifecyclevars
    /\ UNCHANGED <<face_database, calls, fn, args, result, run, cos_log, first_response>>
    /\ UNCHANGED <<service, reference_embeddings, student_ids, threshold,
                   detected_faces, detected_embeddings, valid_face_indices,
                   matches, matched_student_ids, det_idx,
                   response, best_log, scores_computed, image_read, detector_ran>>

\* the true cosines the pair (face f, roster entry r), 0-based, may have: any
\* score for a single call and for a first run, the one the first run read
\* for a second run
Cosines(f, r) ==
    IF run = 0 THEN Scores
    ELSE IF run = 1 THEN ReplayScores
    ELSE {cos_log[f + 1][r + 1]}

\* a first run records the cosine c it read for the pair (face f, entry r)
LogCosine(f, r, c) ==
    IF run # 1 THEN cos_log
    ELSE IF r = 0 THEN Append(cos_log, <<c>>)
    ELSE [cos_log EXCEPT ![f + 1] = Append(@, c)]

\* np.dot(a, b) / (norm(a) * norm(b)) for two vectors of one length whose
\* true cosine is c: 0/0 is nan when either norm is zero, and a NaN or an
\* infinity in a vector makes its norm nan or inf and the quotient nan
LoopSimilarity(det, ref, c) ==
    IF det.kind # "ok" \/ ref.kind # "ok" THEN NaN ELSE c

\* one iteration of `for ref_idx, reference_emb in enumerate(...)`
ScorePair ==
    /\ service = "ai_service"
    /\ pc = "scan"
    /\ ref_idx < Len(reference_embeddings)
    /\ LET det == detected_embeddings[det_idx + 1]
           ref == reference_embeddings[ref_idx + 1]
       IN  IF det.dim # ref.dim
           THEN \* np.dot raises ValueError, caught by `except Exception`
                /\ Finish(HTTPError(500, "internal_error"))
                /\ UNCHANGED <<ref_idx, best_match_idx, best_similarity, scan,
                               scores_computed, cos_log>>
           ELSE \E c \in Cosines(det_idx, ref_idx) :
                LET similarity == LoopSimilarity(det, ref, c)
                IN  /\ IF FloatGt(similarity, best_similarity)
                       THEN /\ best_similarity' = similarity
                            /\ best_match_idx' = ref_idx
                       ELSE UNCHANGED <<best_similarity, best_match_idx>>
                    /\ scan' = ScanStep(scan, similarity, ref_idx)
                    /\ ref_idx' = ref_idx + 1
                    /\ scores_computed' = scores_computed + 1
                    /\ cos_log' = LogCosine(det_idx, ref_idx, c)
                    /\ UNCHANGED <<pc, response>>
    /\ UNCHANGED lifecyclevars
    /\ UNCHANGED <<face_database, calls, fn, args, result, run, first_response>>
    /\ UNCHANGED <<service, reference_embeddings, student_ids, threshold,
                   detected_faces, detected_embeddings, valid_face_indices,
                   matches, matched_student_ids, det_idx,
                   best_log, image_read, detector_ran>>

\* the match recorded for a face: confidence is round(best_similarity, 4)
MatchRecord(idx, sim, det) ==
    [studentId |-> PyIndex(student_ids, idx),
     confidence |-> Round4(sim),
     faceIndex |-> valid_face_indices[det + 1]]

\* faulty variant, used to show the property is sensitive: the test against matched_student_ids is dropped
AcceptsWithoutUniqueness(idx, sim) == FloatGe(sim, threshold)

\* `if best_similarity >= threshold and student_ids[best_match_idx] not in
\* matched_student_ids`
Accepts(idx, sim) ==
    /\ FloatGe(sim, threshold)
    /\ PyIndex(student_ids, idx) \notin matched_student_ids

\* after the roster scan of a face: threshold and uniqueness test
DecideFace ==
    /\ service = "ai_service"
    /\ pc = "scan"
    /\ ref_idx = Len(reference_embeddings)
    /\ IF Accepts(best_match_idx, best_similarity)
       THEN /\ matches' = Append(matches,
                   MatchRecord(best_match_idx, best_similarity, det_idx))
            /\ matched_student_ids' = matched_student_ids \cup
                   {PyIndex(student_ids, best_match_idx)}
       ELSE UNCHANGED <<matches, matched_student_ids>>
    /\ best_log' = Append(best_log, LogEntry(scan))
    /\ det_idx' = det_idx + 1
    /\ pc' = "next_face"
    /\ UNCHANGED lifecyclevars
    /\ UNCHANGED <<face_database, calls, fn, args, result, run, cos_log, first_response>>
    /\ UNCHANGED <<service, reference_embeddings, student_ids, threshold,
                   detected_faces, detected_embeddings, valid_face_indices,
                   ref_idx, best_match_idx, best_similarity,
                   response, scan, scores_computed, image_read, detector_ran>>

\* unmatched_faces and the response dictionary
BuildResponse ==
    /\ service = "ai_service"
    /\ pc = "respond"
    /\ Finish(Report(200, "none", detected_faces, Len(detected_embeddings),
                     matches, Len(detected_embeddings) - Len(matches)))
    /\ UNCHANGED lifecyclevars
    /\ UNCHANGED <<face_database, calls, fn, args, result, run, cos_log, first_response>>
    /\ UNCHANGED <<service, reference_embeddings, student_ids, threshold,
                   detected_faces, detected_embeddings, valid_face_indices,
                   matches, matched_student_ids, det_idx,
                   ref_idx, best_match_idx, best_similarity, scan, best_log,
                   scores_computed, image_read, detector_ran>>

(***************************************************************************)
(* ai-service/main.py compare_faces                                        *)
(***************************************************************************)

LegacyValidateRequest ==
    /\ service = "ai-service"
    /\ pc = "received"
    /\ LET e == RequestError(reference_embeddings, student_ids)
       IN  IF e # "none" THEN Finish(HTTPError(400, e))
           ELSE pc' = "validated" /\ UNCHANGED response
    /\ UNCHANGED lifecyclevars
    /\ UNCHANGED <<face_database, calls, fn, args, result, run, cos_log, first_response>>
    /\ UNCHANGED <<service, reference_embeddings, student_ids, threshold,
                   detected_faces, detected_embeddings, valid_face_indices,
                   matches, matched_student_ids, det_idx,
                   ref_idx, best_match_idx, best_similarity, scan, best_log,
                   scores_computed, image_read, detector_ran>>

\* the report returned when result["facesDetected"] == 0
LegacyNoFaceReport == Report(200, "none", 0, 0, <<>>, 0)

\* file.read() and process_image_for_faces: MTCNN returns n detections, k of
\* them yield a Facenet embedding; the result reports facesDetected =
\* len(embeddings_list); then the early return on no face
LegacyProcessImage ==
    /\ service = "ai-service"
    /\ pc = "validated"
    /\ image_read' = TRUE
    /\ \E outcome \in {"failed", "ok"} :
         IF outcome = "failed"
         THEN /\ Finish(HTTPError(500, "internal_error"))
              /\ UNCHANGED <<detected_faces, detected_embeddings,
                             valid_face_indices, detector_ran>>
         ELSE \E n \in 0..MaxFaces :
              \E embeddings_list \in SeqsUpTo({ExtractedEmbedding(service)}, n) :
                /\ detected_faces' = n
                /\ detector_ran' = TRUE
                /\ detected_embeddings' = embeddings_list
                /\ valid_face_indices' =
                       [k \in 1..Len(embeddings_list) |-> k - 1]
                /\ IF Len(embeddings_list) = 0
                   THEN Finish(LegacyNoFaceReport)
                   ELSE pc' = "similarity" /\ UNCHANGED response
    /\ UNCHANGED lifecyclevars
    /\ UNCHANGED <<face_database, calls, fn, args, result, run, cos_log, first_response>>
    /\ UNCHANGED <<service, reference_embeddings, student_ids, threshold,
                   matches, matched_student_ids, det_idx,
                   ref_idx, best_match_idx, best_similarity, scan, best_log,
                   scores_computed>>

\* np.array(list of lists) is a matrix only when every row has one length
Rectangular(embs) == \A i, j \in 1..Len(embs) : embs[i].dim = embs[j].dim

\* check_array(force_all_finite=True) rejects a matrix holding a NaN or an
\* infinity
HasNonFinite(embs) == \E i \in 1..Len(embs) : embs[i].kind = "nonfinite"

\* sklearn cosine_similarity of two vectors of one length whose true cosine
\* is c: a zero-norm vector is left unscaled, so the score is 0.0
SklearnSimilarity(det, ref, c) ==
    IF det.kind = "zero" \/ ref.kind = "zero" THEN 0 ELSE c

\* np.array(...) twice, cosine_similarity(detected_array, reference_array),
\* and the initialisation of matches and matched_students.  The matrix is a
\* function of the two collections and each of its rows is read once, by the
\* loop: the cosines of a row are drawn when the loop reads it
LegacyComputeSimilarities ==
    /\ service = "ai-service"
    /\ pc = "similarity"
    /\ IF ~Rectangular(reference_embeddings) \/ ~Rectangular(detected_embeddings)
       THEN \* np.array / check_array raise ValueError on ragged rows,
            \* caught by `except Exception`: 500 with detail str(e)
            /\ Finish(HTTPError(500, "internal_error"))
            /\ UNCHANGED scores_computed
       ELSE IF HasNonFinite(detected_embeddings) \/ HasNonFinite(reference_embeddings)
       THEN \* cosine_similarity's check_array raises ValueError "Input
            \* contains NaN" (or infinity), caught the same way
            /\ Finish(HTTPError(500, "input_contains_nan"))
            /\ UNCHANGED scores_computed
       ELSE IF detected_embeddings[1].dim # reference_embeddings[1].dim
       THEN \* cosine_similarity raises ValueError "Incompatible dimension
            \* for X and Y matrices", caught the same way
            /\ Finish(HTTPError(500, "incompatible_dimension"))
            /\ UNCHANGED scores_computed
       ELSE /\ scores_computed' =
                   Len(detected_embeddings) * Len(reference_embeddings)
            /\ pc' = "next_face"
            /\ UNCHANGED response
    /\ matches' = <<>>
    /\ matched_student_ids' = NewMatchedStudentIds
    /\ det_idx' = 0
    /\ UNCHANGED lifecyclevars
    /\ UNCHANGED <<face_database, calls, fn, args, result, run, cos_log, first_response>>
    /\ UNCHANGED <<service, reference_embeddings, student_ids, threshold,
                   detected_faces, detected_embeddings, valid_face_indices,
                   ref_idx, best_match_idx, best_similarity, scan, best_log,
                   image_read, detector_ran>>

\* np.argmax: 0-based position of the first maximum, a NaN counting as the
\* maximum
ArgMax(r) ==
    LET nans == {i \in 1..Len(r) : r[i] = NaN}
        top  == {i \in 1..Len(r) : \A j \in 1..Len(r) : r[i] >= r[j]}
        pick == IF nans # {} THEN nans ELSE top
    IN  (CHOOSE i \in pick : \A j \in pick : i <= j) - 1

\* the match recorded for a face: confidence is float(best_similarity)
LegacyMatchRecord(idx, sim, face) ==
    [studentId |-> PyIndex(student_ids, idx),
     confidence |-> sim,
     faceIndex |-> face]

\* the true cosines the row of face f, 0-based, may have
CosineRows(f) ==
    IF run = 0 THEN [1..Len(reference_embeddings) -> Scores]
    ELSE IF run = 1 THEN [1..Len(reference_embeddings) -> ReplayScores]
    ELSE {cos_log[f + 1]}

\* one iteration of `for face_idx, face_similarities in enumerate(similarities)`
LegacyMatchFace ==
    /\ service = "ai-service"
    /\ pc = "next_face"
    /\ det_idx < Len(detected_embeddings)
    /\ \E cos \in CosineRows(det_idx) :
       LET face_similarities ==
               [r \in 1..Len(reference_embeddings) |->
                   SklearnSimilarity(detected_embeddings[det_idx + 1],
                                     reference_embeddings[r], cos[r])]
           idx == ArgMax(face_similarities)
           sim == face_similarities[idx + 1]
       IN  /\ best_match_idx' = idx
           /\ best_similarity' = sim
           /\ IF Accepts(idx, sim)
              THEN /\ matches' = Append(matches,
                                        LegacyMatchRecord(idx, sim, det_idx))
                   /\ matched_student_ids' = matched_student_ids \cup
                          {PyIndex(student_ids, idx)}
              ELSE UNCHANGED <<matches, matched_student_ids>>
           /\ scan' = ScanRow(face_similarities)
           /\ best_log' = Append(best_log, LogEntry(ScanRow(face_similarities)))
           /\ cos_log' = IF run = 1 THEN Append(cos_log, cos) ELSE cos_log
    /\ det_idx' = det_idx + 1
    /\ UNCHANGED lifecyclevars
    /\ UNCHANGED <<face_database, calls, fn, args, result, run, first_response>>
    /\ UNCHANGED <<service, pc, reference_embeddings, student_ids, threshold,
                   detected_faces, detected_embeddings, valid_face_indices,
                   ref_idx, response, scores_computed,
                   image_read, detector_ran>>

\* total_detected, total_matched, unmatched_faces and result.update
LegacyBuildResponse ==
    /\ service = "ai-service"
    /\ pc = "next_face"
    /\ det_idx = Len(detected_embeddings)
    /\ scan' = ScanStart
    /\ LET total_detected == Len(detected_embeddings)
       IN  Finish(Report(200, "none", total_detected, total_detected, matches,
                         total_detected - Len(matches)))
    /\ UNCHANGED lifecyclevars
    /\ UNCHANGED <<face_database, calls, fn, args, result, run, cos_log, first_response>>
    /\ UNCHANGED <<service, reference_embeddings, student_ids, threshold,
                   detected_faces, detected_embeddings, valid_face_indices,
                   matches, matched_student_ids, det_idx,
                   ref_idx, best_match_idx, best_similarity, best_log,
                   scores_computed, image_read, detector_ran>>

Next ==
    \/ ValidateRequest
    \/ ReadImage
    \/ DetectFaces
    \/ ExtractEmbeddings
    \/ CheckDimensions
    \/ BeginFace
    \/ ScorePair
    \/ DecideFace
    \/ BuildResponse
    \/ LegacyValidateRequest
    \/ LegacyProcessImage
    \/ LegacyComputeSimilarities
    \/ LegacyMatchFace
    \/ LegacyBuildResponse

Spec == Init /\ [][Next]_vars

(***************************************************************************)
(* The matcher run twice on one input: after a call that reached the       *)
(* matcher, the matcher is started again on the same detected embeddings,  *)
(* roster, student ids and threshold, every pair having the cosine it had  *)
(* in the first run.  The variables of the handler keep the values the     *)
(* first run left in them until the code assigns them again.               *)
(***************************************************************************)
MatcherReached ==
    /\ detector_ran
    /\ IF service = "ai_service" THEN detected_faces > 0
       ELSE Len(detected_embeddings) > 0

Rerun ==
    /\ run = 1
    /\ pc = "done"
    /\ MatcherReached
    /\ run' = 2
    /\ first_response' = response
    /\ response' = NoResponse
    /\ pc' = IF service = "ai_service" THEN "check_dims" ELSE "similarity"
    /\ scan' = ScanStart
    /\ best_log' = <<>>
    /\ scores_computed' = 0
    /\ UNCHANGED lifecyclevars
    /\ UNCHANGED <<face_database, calls, fn, args, result, cos_log>>
    /\ UNCHANGED <<service, reference_embeddings, student_ids, threshold,
                   detected_faces, detected_embeddings, valid_face_indices,
                   matches, matched_student_ids, det_idx, ref_idx,
                   best_match_idx, best_similarity, image_read, detector_ran>>

\* a request with as many reference embeddings as student ids, the
\* embeddings being ordinary ones of the recognizer's length
InitTwice ==
    /\ InitCall(1)
    /\ Len(reference_embeddings) = Len(student_ids)
    /\ \A r \in 1..Len(reference_embeddings) :
           reference_embeddings[r] = ExtractedEmbedding(service)

NextTwice ==
    \/ Next
    \/ Rerun

SpecTwice == InitTwice /\ [][NextTwice]_vars

(***************************************************************************)
(* The two matchers on one input: after a successful call of ai-service,   *)
(* the matcher of ai_service is run on the same detected embeddings,       *)
(* roster, student ids and threshold, every pair having the cosine it had  *)
(* for ai-service.  ai-service records the position of the embedding as    *)
(* faceIndex, and so does ai_service here, valid_face_indices being those  *)
(* positions.                                                              *)
(***************************************************************************)
RerunOther ==
    /\ run = 1
    /\ pc = "done"
    /\ service = "ai-service"
    /\ response.status = 200
    /\ Len(detected_embeddings) > 0
    /\ service' = "ai_service"
    /\ run' = 2
    /\ first_response' = response
    /\ response' = NoResponse
    /\ pc' = "check_dims"
    /\ scan' = ScanStart
    /\ best_log' = <<>>
    /\ scores_computed' = 0
    /\ UNCHANGED lifecyclevars
    /\ UNCHANGED <<face_database, calls, fn, args, result, cos_log>>
    /\ UNCHANGED <<reference_embeddings, student_ids, threshold,
                   detected_faces, detected_embeddings, valid_face_indices,
                   matches, matched_student_ids, det_idx, ref_idx,
                   best_match_idx, best_similarity, image_read, detector_ran>>

\* a request to ai-service with as many reference embeddings as student
\* ids, the embeddings being finite ones of the recognizer's length
InitBoth ==
    /\ InitCall(1)
    /\ service = "ai-service"
    /\ Len(reference_embeddings) = Len(student_ids)
    /\ \A r \in 1..Len(reference_embeddings) :
           /\ reference_embeddings[r].dim = RecognizerDim(service)
           /\ reference_embeddings[r].kind # "nonfinite"

NextBoth ==
    \/ LegacyValidateRequest
    \/ LegacyProcessImage
    \/ LegacyComputeSimilarities
    \/ LegacyMatchFace
    \/ LegacyBuildResponse
    \/ RerunOther
    \/ CheckDimensions
    \/ BeginFace
    \/ ScorePair
    \/ DecideFace
    \/ BuildResponse

SpecBoth == InitBoth /\ [][NextBoth]_vars

(***************************************************************************)
(* The pure functions of the two services, each applied on its own to      *)
(* inputs drawn from bounded sets.                                         *)
(***************************************************************************)

\* number of steps of the grid of confidence values between 0.0 and 1.0
GridPoints == 40

HIGH_CONFIDENCE_THRESHOLD == 85000
MEDIUM_CONFIDENCE_THRESHOLD == 70000
LOW_CONFIDENCE_THRESHOLD == 60000

\* max(0, min(1, similarity))
Clamp01(x) == IF x < 0 THEN 0 ELSE IF x > 100000 THEN 100000 ELSE x

\* app/utils/similarity.py calculate_cosine_similarity: sklearn's
\* cosine_similarity of the two reshaped vectors, clamped to [0, 1]; sklearn
\* raises on two lengths and on a NaN or an infinity, and the function then
\* returns 0.0 from its except clause
calculate_cosine_similarity(a, b, c) ==
    IF a.dim # b.dim \/ a.kind = "nonfinite" \/ b.kind = "nonfinite" THEN 0
    ELSE Clamp01(SklearnSimilarity(a, b, c))

\* ai-service/utils.py calculate_cosine_similarity: np.dot raises on two
\* lengths (0.0 from the except clause), a zero norm returns 0.0, otherwise
\* dot / (norm_a * norm_b), which is nan for a NaN or an infinity
legacy_calculate_cosine_similarity(a, b, c) ==
    IF a.dim # b.dim THEN 0
    ELSE IF a.kind = "zero" \/ b.kind = "zero" THEN 0
    ELSE IF a.kind = "nonfinite" \/ b.kind = "nonfinite" THEN NaN
    ELSE c

\* the places that compute a cosine similarity
CosineFns ==
    {"similarity.calculate_cosine_similarity",
     "utils.calculate_cosine_similarity",
     "compare_faces.loop",
     "compare_faces.cosine_similarity"}

InitUtil ==
    /\ service = "ai_service"
    /\ pc = "utility"
    /\ reference_embeddings = <<>>
    /\ student_ids = <<>>
    /\ threshold = DefaultThreshold
    /\ detected_faces = 0
    /\ detected_embeddings = <<>>
    /\ valid_face_indices = <<>>
    /\ matches = <<>>
    /\ matched_student_ids = {}
    /\ det_idx = 0
    /\ ref_idx = 0
    /\ best_match_idx = InitialBestMatchIdx
    /\ best_similarity = InitialBestSimilarity
    /\ response = NoResponse
    /\ scan = ScanStart
    /\ best_log = <<>>
    /\ scores_computed = 0
    /\ image_read = FALSE
    /\ detector_ran = FALSE
    /\ fn = "none"
    /\ args = NoArgs
    /\ result = 0
    /\ run = 0
    /\ cos_log = <<>>
    /\ first_response = NoResponse
    /\ face_database = {}
    /\ calls = <<>>
    /\ LifecycleIdle

mainvars ==
    <<service, pc, reference_embeddings, student_ids, threshold,
      detected_faces, detected_embeddings, valid_face_indices,
      matches, matched_student_ids, det_idx, ref_idx,
      best_match_idx, best_similarity, response, scan, best_log,
      scores_computed, image_read, detector_ran,
      run, cos_log, first_response, face_database, calls,
      face_recognizer, lifespan, startup_log, backend_integration,
      instances, sessions>>

\* fn is called with arguments a and returns r
Returns(f, a, r) ==
    /\ fn = "none"
    /\ fn' = f
    /\ args' = a
    /\ result' = r
    /\ UNCHANGED mainvars

CallCosineSimilarity ==
    \E a, b \in Embeddings, c \in Scores :
        Returns("similarity.calculate_cosine_similarity",
                [a |-> a, b |-> b, c |-> c],
                calculate_cosine_similarity(a, b, c))

CallLegacyCosineSimilarity ==
    \E a, b \in Embeddings, c \in Scores :
        Returns("utils.calculate_cosine_similarity",
                [a |-> a, b |-> b, c |-> c],
                legacy_calculate_cosine_similarity(a, b, c))

\* the expression of ai_service/main.py compare_faces's inner loop, on two
\* vectors of one length
EvalLoopSimilarity ==
    \E a, b \in Embeddings, c \in Scores :
        /\ a.dim = b.dim
        /\ Returns("compare_faces.loop", [a |-> a, b |-> b, c |-> c],
                   LoopSimilarity(a, b, c))

\* an entry of the matrix of ai-service/main.py compare_faces, on two finite
\* vectors of one length
EvalSklearnSimilarity ==
    \E a, b \in Embeddings, c \in Scores :
        /\ a.dim = b.dim
        /\ a.kind # "nonfinite"
        /\ b.kind # "nonfinite"
        /\ Returns("compare_faces.cosine_similarity",
                   [a |-> a, b |-> b, c |-> c], SklearnSimilarity(a, b, c))

\* faulty variant, used to show the property is sensitive: the high cut point is exclusive
get_status_exclusive_cut(confidence) ==
    IF FloatGt(confidence, HIGH_CONFIDENCE_THRESHOLD) THEN "Present"
    ELSE IF FloatGe(confidence, MEDIUM_CONFIDENCE_THRESHOLD) THEN "Uncertain"
    ELSE IF FloatGe(confidence, LOW_CONFIDENCE_THRESHOLD) THEN "Low_Confidence"
    ELSE "Not_Recognized"

\* FaceMatchingConfig.get_status_from_confidence
get_status_from_confidence(confidence) ==
    IF FloatGe(confidence, HIGH_CONFIDENCE_THRESHOLD) THEN "Present"
    ELSE IF FloatGe(confidence, MEDIUM_CONFIDENCE_THRESHOLD) THEN "Uncertain"
    ELSE IF FloatGe(confidence, LOW_CONFIDENCE_THRESHOLD) THEN "Low_Confidence"
    ELSE "Not_Recognized"

\* confidence values in [-1, 1]: a regular grid, the three cut points and
\* their neighbours
Confidences ==
    {(k * 100000) \div GridPoints : k \in (-GridPoints)..GridPoints}
    \cup {t + d : t \in {LOW_CONFIDENCE_THRESHOLD, MEDIUM_CONFIDENCE_THRESHOLD,
                         HIGH_CONFIDENCE_THRESHOLD},
                  d \in {-1, 0, 1}}

CallGetStatus ==
    \E confidence \in Confidences :
        Returns("get_status_from_confidence", [confidence |-> confidence],
                get_status_from_confidence(confidence))

\* find_best_matches's default for top_k
DefaultTopK == 3

TopKs == 0..DefaultTopK

\* the embeddings find_best_matches is applied to
DatabaseEmbeddings ==
    {e \in Embeddings : e.kind # "ok" => e.dim = EMBEDDING_DIM}

RECURSIVE InsertAhead(_, _)
\* faulty variant, used to show the property is sensitive: a pair goes ahead of the pairs of equal score
InsertAhead(sorted, p) ==
    IF sorted = <<>> THEN <<p>>
    ELSE IF Head(sorted)[2] > p[2]
    THEN <<Head(sorted)>> \o InsertAhead(Tail(sorted), p)
    ELSE <<p>> \o sorted

RECURSIVE InsertBehind(_, _)
\* the place of pair p in a list sorted by non-increasing score that keeps
\* pairs of equal score in the order they came: behind every pair whose
\* score is at least its own
InsertBehind(sorted, p) ==
    IF sorted = <<>> THEN <<p>>
    ELSE IF Head(sorted)[2] >= p[2]
    THEN <<Head(sorted)>> \o InsertBehind(Tail(sorted), p)
    ELSE <<p>> \o sorted

RECURSIVE SortAhead(_)
\* faulty variant, used to show the property is sensitive: the sort reverses the pairs of equal score
SortAhead(pairs) ==
    IF pairs = <<>> THEN <<>>
    ELSE InsertAhead(SortAhead(SubSeq(pairs, 1, Len(pairs) - 1)),
                     pairs[Len(pairs)])

RECURSIVE SortDescending(_)
\* similarities.sort(key=lambda x: x[1], reverse=True): list.sort is stable,
\* also with reverse=True
SortDescending(pairs) ==
    IF pairs = <<>> THEN <<>>
    ELSE InsertBehind(SortDescending(SubSeq(pairs, 1, Len(pairs) - 1)),
                      pairs[Len(pairs)])

Min(a, b) == IF a <= b THEN a ELSE b

\* faulty variant, used to show the property is sensitive: pairs of equal score come out in reverse roster order
find_best_matches_reversing_ties(query_embedding, database_embeddings, ids, cos, top_k) ==
    IF Len(database_embeddings) = 0 THEN <<>>
    ELSE IF Len(ids) < Len(database_embeddings) THEN <<>>
    ELSE LET similarities ==
                 [i \in 1..Len(database_embeddings) |->
                     <<ids[i],
                       calculate_cosine_similarity(query_embedding,
                                                   database_embeddings[i], cos[i])>>]
             sorted == SortAhead(similarities)
         IN  SubSeq(sorted, 1, Min(top_k, Len(sorted)))

\* app/utils/similarity.py find_best_matches with method='cosine', for
\* top_k >= 0; cos[i] is the true cosine of the query and entry i.  With
\* fewer student ids than database entries student_ids[i] raises inside the
\* try block and the except clause returns []
find_best_matches(query_embedding, database_embeddings, ids, cos, top_k) ==
    IF Len(database_embeddings) = 0 THEN <<>>
    ELSE IF Len(ids) < Len(database_embeddings) THEN <<>>
    ELSE LET similarities ==
                 [i \in 1..Len(database_embeddings) |->
                     <<ids[i],
                       calculate_cosine_similarity(query_embedding,
                                                   database_embeddings[i], cos[i])>>]
             sorted == SortDescending(similarities)
         IN  SubSeq(sorted, 1, Min(top_k, Len(sorted)))

CallFindBestMatches ==
    /\ fn = "none"
    /\ \E n \in 0..MaxRoster, top_k \in TopKs :
        \E database \in [1..n -> DatabaseEmbeddings], cos \in [1..n -> Scores],
           ids \in [1..n -> StudentIdSet] \cup
                   (IF n > 0 THEN [1..(n - 1) -> StudentIdSet] ELSE {}) :
            Returns("find_best_matches",
                    [query |-> ExtractedEmbedding("ai_service"),
                     database |-> database, cos |-> cos,
                     student_ids |-> ids, top_k |-> top_k],
                    find_best_matches(ExtractedEmbedding("ai_service"),
                                      database, ids, cos, top_k))

NextUtil ==
    \/ CallFindBestMatches
    \/ CallCosineSimilarity
    \/ CallLegacyCosineSimilarity
    \/ EvalLoopSimilarity
    \/ EvalSklearnSimilarity
    \/ CallGetStatus

SpecUtil == InitUtil /\ [][NextUtil]_vars

(***************************************************************************)
(* The endpoints of ai_service/main.py served side by side on one event    *)
(* loop.  A handler runs without interruption between two awaits; at an    *)
(* await another request may be served.  All handlers receive the one      *)
(* FaceRecognizer created at startup.  A photo is the set of the students  *)
(* whose faces it shows, a roster the set of the students it names.        *)
(***************************************************************************)

\* number of requests served together
MaxCalls == 3

Photos == {{"S0"}, {"S0", "S1"}}
Rosters == {{"S0"}, {"S1"}}

Call(kind, photo, roster, student) ==
    [kind |-> kind, pc |-> "reading", photo |-> photo, roster |-> roster,
     student |-> student, result |-> {}]

InitServing ==
    /\ service = "ai_service"
    /\ pc = "serving"
    /\ reference_embeddings = <<>>
    /\ student_ids = <<>>
    /\ threshold = DefaultThreshold
    /\ detected_faces = 0
    /\ detected_embeddings = <<>>
    /\ valid_face_indices = <<>>
    /\ matches = <<>>
    /\ matched_student_ids = {}
    /\ det_idx = 0
    /\ ref_idx = 0
    /\ best_match_idx = InitialBestMatchIdx
    /\ best_similarity = InitialBestSimilarity
    /\ response = NoResponse
    /\ scan = ScanStart
    /\ best_log = <<>>
    /\ scores_computed = 0
    /\ image_read = FALSE
    /\ detector_ran = FALSE
    /\ fn = "none"
    /\ args = NoArgs
    /\ result = 0
    /\ run = 0
    /\ cos_log = <<>>
    /\ first_response = NoResponse
    /\ face_database \in SUBSET StudentIdSet
    /\ calls = <<>>
    /\ LifecycleIdle

handlervars ==
    <<service, pc, reference_embeddings, student_ids, threshold,
      detected_faces, detected_embeddings, valid_face_indices,
      matches, matched_student_ids, det_idx, ref_idx,
      best_match_idx, best_similarity, response, scan, best_log,
      scores_computed, image_read, detector_ran, fn, args, result,
      run, cos_log, first_response,
      face_recognizer, lifespan, startup_log, backend_integration,
      instances, sessions>>

\* a request for /compare, /analyze or /enroll-student arrives; its handler
\* runs up to `await file.read()`
Arrive ==
    /\ Len(calls) < MaxCalls
    /\ \E photo \in Photos :
         \/ \E roster \in Rosters :
              calls' = Append(calls, Call("compare", photo, roster, "none"))
         \/ calls' = Append(calls, Call("analyze", photo, {}, "none"))
         \/ \E student \in StudentIdSet :
              calls' = Append(calls, Call("enroll", {student}, {}, student))
    /\ UNCHANGED face_database
    /\ UNCHANGED handlervars

\* compare_faces from the read to the return: detection, extraction and the
\* matching against the roster of the request, all on local variables
CompareMatch ==
    \E i \in 1..Len(calls) :
        /\ calls[i].kind = "compare"
        /\ calls[i].pc = "reading"
        /\ calls' = [calls EXCEPT ![i].pc = "done",
                                  ![i].result = calls[i].photo \cap calls[i].roster]
        /\ UNCHANGED face_database
        /\ UNCHANGED handlervars

\* analyze_classroom_image from the read to `await
\* backend.fetch_class_students(class_id)`
AnalyzeFetch ==
    \E i \in 1..Len(calls) :
        /\ calls[i].kind = "analyze"
        /\ calls[i].pc = "reading"
        /\ calls' = [calls EXCEPT ![i].pc = "fetching"]
        /\ UNCHANGED face_database
        /\ UNCHANGED handlervars

\* recognizer.analyze_classroom_image(image, threshold): the faces of the
\* photo are matched against the recognizer's face_database
RecognizedFaces(photo, database) == photo \cap database

\* analyze_classroom_image from the fetch to the first await of the saving
\* of the annotated image
AnalyzeRecognize ==
    \E i \in 1..Len(calls) :
        /\ calls[i].kind = "analyze"
        /\ calls[i].pc = "fetching"
        /\ calls' = [calls EXCEPT ![i].pc = "saving",
                                  ![i].result = RecognizedFaces(calls[i].photo,
                                                                face_database)]
        /\ UNCHANGED face_database
        /\ UNCHANGED handlervars

\* recognizer.add_student_to_database(student_id, student_name, embedding)
AddStudent(database, student) == database \cup {student}

\* enroll_student from the read to the saving of the enrollment image:
\* the photo has one face with an embedding and the student is added, or
\* the request is refused
EnrollStore ==
    \E i \in 1..Len(calls) :
        /\ calls[i].kind = "enroll"
        /\ calls[i].pc = "reading"
        /\ \E accepted \in BOOLEAN :
             IF accepted
             THEN /\ face_database' = AddStudent(face_database, calls[i].student)
                  /\ calls' = [calls EXCEPT ![i].pc = "saving"]
             ELSE /\ calls' = [calls EXCEPT ![i].pc = "done"]
                  /\ UNCHANGED face_database
        /\ UNCHANGED handlervars

\* the rest of analyze_classroom_image and of enroll_student: files and
\* backend notifications, then the response
Respond ==
    \E i \in 1..Len(calls) :
        /\ calls[i].pc = "saving"
        /\ calls' = [calls EXCEPT ![i].pc = "done"]
        /\ UNCHANGED face_database
        /\ UNCHANGED handlervars

\* clear_database: no await, the handler runs from arrival to return
ClearDatabase ==
    /\ Len(calls) < MaxCalls
    /\ face_database' = {}
    /\ calls' = Append(calls, [Call("clear", {}, {}, "none") EXCEPT !.pc = "done"])
    /\ UNCHANGED handlervars

NextServing ==
    \/ Arrive
    \/ CompareMatch
    \/ AnalyzeFetch
    \/ AnalyzeRecognize
    \/ EnrollStore
    \/ Respond
    \/ ClearDatabase

SpecServing == InitServing /\ [][NextServing]_vars

(***************************************************************************)
(* app/utils/backend_integration.py: the BackendIntegration object, its    *)
(* global instance and their callers on one event loop.  A coroutine runs  *)
(* without interruption up to the await at which it suspends: a request    *)
(* method runs from its call to the sending of the request, and again from *)
(* the arrival of the answer to its return.                                *)
(***************************************************************************)

\* number of calls of the integration made in one behaviour
MaxClients == 2

Methods ==
    {"fetch_class_students", "fetch_student_images",
     "update_attendance_records", "notify_recognition_complete",
     "get_session_info", "health_check"}

\* what becomes of a request once sent: an answer with status 200 and a JSON
\* body, an answer with status 200 whose body is not JSON, an answer with
\* another status, or an exception (connection refused, timeout, session
\* closed under the request)
Outcomes == {"200", "200_invalid_body", "non200", "exception"}

\* the variables of the /compare handler and of the utility harness
requestvars ==
    <<service, pc, reference_embeddings, student_ids, threshold,
      detected_faces, detected_embeddings, valid_face_indices,
      matches, matched_student_ids, det_idx, ref_idx,
      best_match_idx, best_similarity, response, scan, best_log,
      scores_computed, image_read, detector_ran, fn, args, result,
      run, cos_log, first_response>>

\* nothing of the /compare handler or of the utility harness is running
HandlerIdle(p) ==
    /\ service = "ai_service"
    /\ pc = p
    /\ reference_embeddings = <<>>
    /\ student_ids = <<>>
    /\ threshold = DefaultThreshold
    /\ detected_faces = 0
    /\ detected_embeddings = <<>>
    /\ valid_face_indices = <<>>
    /\ matches = <<>>
    /\ matched_student_ids = {}
    /\ det_idx = 0
    /\ ref_idx = 0
    /\ best_match_idx = InitialBestMatchIdx
    /\ best_similarity = InitialBestSimilarity
    /\ response = NoResponse
    /\ scan = ScanStart
    /\ best_log = <<>>
    /\ scores_computed = 0
    /\ image_read = FALSE
    /\ detector_ran = FALSE
    /\ fn = "none"
    /\ args = NoArgs
    /\ result = 0
    /\ run = 0
    /\ cos_log = <<>>
    /\ first_response = NoResponse

\* the value a method returns from its `if response.status == 200` branch
SuccessValue(m) ==
    CASE m = "fetch_class_students" -> "students"
      [] m = "fetch_student_images" -> "images"
      [] m = "get_session_info" -> "session_data"
      [] OTHER -> "True"

\* the value a method returns from its else branch and from its except
\* clause
FailureValue(m) ==
    CASE m \in {"fetch_class_students", "fetch_student_images"} -> "[]"
      [] m = "get_session_info" -> "None"
      [] OTHER -> "False"

\* faulty variant, used to show the property is sensitive: the methods have no except clause
method_return_raising(m, outcome) ==
    IF outcome = "exception" THEN "raised"
    ELSE IF m \in {"health_check", "notify_recognition_complete"}
    THEN IF outcome \in {"200", "200_invalid_body"} THEN "True" ELSE "False"
    ELSE IF outcome = "200" THEN SuccessValue(m)
    ELSE IF outcome = "200_invalid_body" THEN "raised"
    ELSE FailureValue(m)

\* what a request method returns to its caller.  health_check and
\* notify_recognition_complete never read the body; the others read it with
\* `await response.json()`, which raises inside the try block on a body
\* that is not JSON
method_return(m, outcome) ==
    IF m \in {"health_check", "notify_recognition_complete"}
    THEN IF outcome \in {"200", "200_invalid_body"} THEN "True" ELSE "False"
    ELSE IF outcome = "200" THEN SuccessValue(m)
    ELSE FailureValue(m)

\* self.session of instance b: None, or the state of the ClientSession
SessionState(insts, b) ==
    IF insts[b] = 0 THEN "missing" ELSE sessions[insts[b]]

\* faulty variant, used to show the property is sensitive: a closed session is kept
ensure_session_only_missing(insts, b) ==
    IF SessionState(insts, b) = "missing"
    THEN [instances |-> [insts EXCEPT ![b] = Len(sessions) + 1],
          sessions |-> Append(sessions, "open")]
    ELSE [instances |-> insts, sessions |-> sessions]

\* BackendIntegration._ensure_session: `if self.session is None or
\* self.session.closed: self.session = aiohttp.ClientSession(...)`
ensure_session(insts, b) ==
    IF SessionState(insts, b) \in {"missing", "closed"}
    THEN [instances |-> [insts EXCEPT ![b] = Len(sessions) + 1],
          sessions |-> Append(sessions, "open")]
    ELSE [instances |-> insts, sessions |-> sessions]

\* BackendIntegration.close up to its await: `if self.session and not
\* self.session.closed: await self.session.close()`; the session counts as
\* closed from the moment close() is entered
close(insts, b) ==
    IF SessionState(insts, b) = "open"
    THEN [sessions EXCEPT ![insts[b]] = "closed"]
    ELSE sessions

\* get_backend_integration(): the global instance, created when it is None
get_backend_integration ==
    IF backend_integration = 0
    THEN [backend |-> Len(instances) + 1, instances |-> Append(instances, 0)]
    ELSE [backend |-> backend_integration, instances |-> instances]

\* a call of the integration: the operation, the instance and the session
\* it ran on, what the session was when the call began, whether the request
\* went out on an open session, whether that session was created by this
\* call, whether the call changed any session, what became of the request
\* and what the call returned
BackendCall(op, p, b, sid, was, open, fresh, changed, outcome, r) ==
    [op |-> op, pc |-> p, backend |-> b, session |-> sid, was |-> was,
     open |-> open, fresh |-> fresh, changed |-> changed,
     outcome |-> outcome, result |-> r]

InitBackend ==
    /\ HandlerIdle("backend")
    /\ face_database = {}
    /\ calls = <<>>
    /\ LifecycleIdle

\* a coroutine takes the integration from get_backend_integration() and
\* calls one of its request methods, which runs up to the sending of the
\* request; on a closed session aiohttp raises at once and the method
\* returns from its except clause
ClientCall ==
    /\ lifespan \in {"serving", "closing"}
    /\ Len(calls) < MaxClients
    /\ \E m \in Methods :
         LET g == get_backend_integration
             e == ensure_session(g.instances, g.backend)
             sid == e.instances[g.backend]
             open == e.sessions[sid] = "open"
         IN  /\ backend_integration' = g.backend
             /\ instances' = e.instances
             /\ sessions' = e.sessions
             /\ calls' = Append(calls,
                    BackendCall(m, IF open THEN "awaiting" ELSE "done",
                                g.backend, sid,
                                SessionState(g.instances, g.backend),
                                open, sid > Len(sessions),
                                e.sessions # sessions,
                                IF open THEN "pending" ELSE "exception",
                                IF open THEN "pending"
                                ELSE method_return(m, "exception")))
    /\ UNCHANGED <<face_recognizer, lifespan, startup_log, face_database>>
    /\ UNCHANGED requestvars

\* the answer arrives, or the request fails, and the method returns
ClientReturn ==
    /\ \E i \in 1..Len(calls), outcome \in Outcomes :
         /\ calls[i].pc = "awaiting"
         /\ calls' = [calls EXCEPT ![i].pc = "done",
                                   ![i].outcome = outcome,
                                   ![i].result = method_return(calls[i].op, outcome)]
    /\ UNCHANGED <<face_database, lifecyclevars>>
    /\ UNCHANGED requestvars

\* a coroutine takes the integration from get_backend_integration() and
\* calls close() on it
ClientClose ==
    /\ lifespan \in {"serving", "closing"}
    /\ Len(calls) < MaxClients
    /\ LET g == get_backend_integration
           after == close(g.instances, g.backend)
       IN  /\ backend_integration' = g.backend
           /\ instances' = g.instances
           /\ sessions' = after
           /\ calls' = Append(calls,
                  BackendCall("close", "done", g.backend,
                              g.instances[g.backend],
                              SessionState(g.instances, g.backend),
                              FALSE, FALSE, after # sessions, "none", "None"))
    /\ UNCHANGED <<face_recognizer, lifespan, startup_log, face_database>>
    /\ UNCHANGED requestvars

\* shutdown_event calls cleanup_backend_integration, which runs up to
\* `await backend_integration.close()`; whether closing the session suspends
\* the coroutine is the library's affair, and when it does not, or when
\* there is nothing to close, cleanup runs to its end
CleanupBegin ==
    /\ lifespan = "serving"
    /\ IF backend_integration = 0
       THEN /\ lifespan' = "stopped"
            /\ UNCHANGED <<backend_integration, sessions>>
       ELSE /\ sessions' = close(instances, backend_integration)
            /\ \E suspends \in BOOLEAN :
                 IF suspends /\ SessionState(instances, backend_integration) = "open"
                 THEN /\ lifespan' = "closing"
                      /\ UNCHANGED backend_integration
                 ELSE /\ lifespan' = "stopped"
                      /\ backend_integration' = 0
    /\ UNCHANGED <<face_recognizer, startup_log, instances, face_database, calls>>
    /\ UNCHANGED requestvars

\* cleanup_backend_integration after the await: `backend_integration = None`
CleanupEnd ==
    /\ lifespan = "closing"
    /\ backend_integration' = 0
    /\ lifespan' = "stopped"
    /\ UNCHANGED <<face_recognizer, startup_log, instances, sessions,
                   face_database, calls>>
    /\ UNCHANGED requestvars

NextBackend ==
    \/ ClientCall
    \/ ClientReturn
    \/ ClientClose
    \/ CleanupBegin
    \/ CleanupEnd

SpecBackend == InitBackend /\ [][NextBackend]_vars

(***************************************************************************)
(* ai_service/main.py from startup on: startup_event, the dependency       *)
(* get_face_recognizer and the endpoints that take it, with the            *)
(* conversation /analyze has with the backend; and the /enroll-student     *)
(* endpoint of ai-service/main.py.  Requests are served once startup_event *)
(* has returned.  A handler runs without interruption between two awaits.  *)
(* A photo is the set of the students whose faces it shows.                *)
(***************************************************************************)

\* number of requests served together
MaxRequests == 2

\* the endpoints of ai_service/main.py declared with
\* Depends(get_face_recognizer)
Gated ==
    {"detect-faces", "analyze", "enroll-student", "compare",
     "database/info", "database/clear"}

\* ai-service/main.py enroll_student_face, which takes no recognizer
LegacyEnroll == "ai-service/enroll-student"

Endpoints == Gated \cup {LegacyEnroll}

\* a request: its endpoint, the position of its handler, the photo and the
\* student id it carries, the status of its answer (0 until it ends) and
\* what its handler did: the faces whose embedding was extracted, the
\* students recognised, the calls about attendance made to the backend and
\* their returns, the result of the update, the attendance_updated field of
\* the answer, and whether it ran detection, ran matching, changed the
\* database, or returned an embedding
Request(kind, photo, student) ==
    [kind |-> kind, pc |-> "arrived", photo |-> photo, student |-> student,
     status |-> 0, extracted |-> {}, recognized |-> {}, trace |-> <<>>,
     update_result |-> "none", attendance_updated |-> "absent",
     detected |-> FALSE, matched |-> FALSE, changed |-> FALSE,
     embedding |-> FALSE]

InitService ==
    /\ HandlerIdle("service")
    /\ face_database = {}
    /\ calls = <<>>
    /\ face_recognizer = "None"
    /\ lifespan = "starting"
    /\ startup_log = <<>>
    /\ backend_integration = 0
    /\ instances = <<>>
    /\ sessions = <<>>

\* get_backend_integration() followed by the method's _ensure_session()
IntegrationInUse ==
    LET g == get_backend_integration
        e == ensure_session(g.instances, g.backend)
    IN  [backend |-> g.backend, instances |-> e.instances,
         sessions |-> e.sessions]

\* startup_event up to `await backend.health_check()`, or to the end of its
\* except clause when FaceRecognizer() or os.makedirs raises
StartupBegin ==
    /\ lifespan = "starting"
    /\ \E raised \in {"FaceRecognizer", "makedirs", "none"} :
         CASE raised = "FaceRecognizer" ->
                /\ face_recognizer' = "None"
                /\ startup_log' = <<>>
                /\ lifespan' = "serving"
                /\ UNCHANGED <<backend_integration, instances, sessions>>
           [] raised = "makedirs" ->
                /\ face_recognizer' = "None"
                /\ startup_log' = <<"recognizer">>
                /\ lifespan' = "serving"
                /\ UNCHANGED <<backend_integration, instances, sessions>>
           [] raised = "none" ->
                /\ face_recognizer' = "ready"
                /\ startup_log' = <<"recognizer", "directories">>
                /\ lifespan' = "health_check"
                /\ backend_integration' = IntegrationInUse.backend
                /\ instances' = IntegrationInUse.instances
                /\ sessions' = IntegrationInUse.sessions
    /\ UNCHANGED <<face_database, calls>>
    /\ UNCHANGED requestvars

\* startup_event from the return of health_check to its end; whatever
\* health_check returns, startup goes on
StartupEnd ==
    /\ lifespan = "health_check"
    /\ \E outcome \in Outcomes :
         IF method_return("health_check", outcome) = "raised"
         THEN /\ face_recognizer' = "None"
              /\ UNCHANGED startup_log
         ELSE /\ startup_log' = Append(startup_log, "health_check")
              /\ UNCHANGED face_recognizer
    /\ lifespan' = "serving"
    /\ UNCHANGED <<backend_integration, instances, sessions, face_database, calls>>
    /\ UNCHANGED requestvars

\* faulty variant, used to show the property is sensitive: the dependency never refuses
get_face_recognizer_open(recognizer) == 0

\* get_face_recognizer: 503 when the global is None (0: the recognizer is
\* handed to the endpoint)
get_face_recognizer(recognizer) ==
    IF recognizer = "None" THEN 503 ELSE 0

\* the request has ended with this status
Ended(r, status) == [r EXCEPT !.pc = "done", !.status = status]

\* a request arrives: the dependency is resolved and the handler runs up to
\* its first await, `await file.read()`; get_database_info and
\* clear_database have no await and run to their end
Admit ==
    /\ lifespan = "serving"
    /\ Len(calls) < MaxRequests
    /\ \E kind \in Endpoints, photo \in SUBSET StudentIdSet,
          student \in StudentIdSet \cup {"none"} :
         LET r == Request(kind, photo, student) IN
         /\ (student # "none") <=> (kind = "enroll-student")
         /\ kind \in {"detect-faces", "compare", "database/info",
                      "database/clear"} => photo = {}
         /\ IF kind \in Gated /\ get_face_recognizer(face_recognizer) = 503
            THEN /\ calls' = Append(calls, Ended(r, 503))
                 /\ UNCHANGED face_database
            ELSE CASE kind = "database/info" ->
                        /\ calls' = Append(calls, Ended(r, 200))
                        /\ UNCHANGED face_database
                   [] kind = "database/clear" ->
                        /\ calls' = Append(calls,
                               Ended([r EXCEPT !.changed = TRUE], 200))
                        /\ face_database' = {}
                   [] OTHER ->
                        /\ calls' = Append(calls, [r EXCEPT !.pc = "reading"])
                        /\ UNCHANGED face_database
    /\ UNCHANGED lifecyclevars
    /\ UNCHANGED requestvars

\* detect_faces_simple and compare_faces from the read to the return: an
\* upload that is no usable image is refused, otherwise detection runs
\* (and, for /compare, matching against the roster of the request)
ServeDetection ==
    /\ \E i \in 1..Len(calls), usable \in BOOLEAN :
         /\ calls[i].kind \in {"detect-faces", "compare"}
         /\ calls[i].pc = "reading"
         /\ calls' = [calls EXCEPT ![i] =
                IF usable
                THEN Ended([@ EXCEPT !.detected = TRUE,
                                     !.matched = (calls[i].kind = "compare")], 200)
                ELSE Ended(@, 400)]
    /\ UNCHANGED <<face_database, lifecyclevars>>
    /\ UNCHANGED requestvars

\* analyze_classroom_image from the read to `await
\* backend.fetch_class_students(class_id)`
AnalyzeLoad ==
    /\ \E i \in 1..Len(calls), usable \in BOOLEAN :
         /\ calls[i].kind = "analyze"
         /\ calls[i].pc = "reading"
         /\ IF usable
            THEN /\ calls' = [calls EXCEPT ![i].pc = "fetching"]
                 /\ backend_integration' = IntegrationInUse.backend
                 /\ instances' = IntegrationInUse.instances
                 /\ sessions' = IntegrationInUse.sessions
            ELSE /\ calls' = [calls EXCEPT ![i] = Ended(@, 400)]
                 /\ UNCHANGED <<backend_integration, instances, sessions>>
    /\ UNCHANGED <<face_recognizer, lifespan, startup_log, face_database>>
    /\ UNCHANGED requestvars

\* analyze_classroom_image from the return of fetch_class_students, whose
\* value is only logged, to the first await of the saving of the annotated
\* image: recognizer.analyze_classroom_image(image, threshold)
AnalyzeClassroom ==
    /\ \E i \in 1..Len(calls) :
         /\ calls[i].kind = "analyze"
         /\ calls[i].pc = "fetching"
         /\ calls' = [calls EXCEPT
                ![i].pc = "saving",
                ![i].detected = TRUE,
                ![i].matched = TRUE,
                ![i].recognized = RecognizedFaces(calls[i].photo, face_database)]
    /\ UNCHANGED <<face_database, lifecyclevars>>
    /\ UNCHANGED requestvars

\* faulty variant, used to show the property is sensitive: no notification after a failed update
AfterUpdateOnlyOnSuccess(update_success) ==
    IF update_success = "True" THEN "notify" ELSE "return"

\* what follows the if/else on update_success: the notification, on both
\* branches
AfterUpdate(update_success) == "notify"

\* analyze_classroom_image from the saving of the image to `await
\* backend.update_attendance_records(...)`, or to the return when no face
\* was recognised; a failed write ends the request with 500
AnalyzeUpdate ==
    /\ \E i \in 1..Len(calls), saved \in BOOLEAN :
         /\ calls[i].kind = "analyze"
         /\ calls[i].pc = "saving"
         /\ IF ~saved
            THEN /\ calls' = [calls EXCEPT ![i] = Ended(@, 500)]
                 /\ UNCHANGED <<backend_integration, instances, sessions>>
            ELSE IF calls[i].recognized = {}
            THEN /\ calls' = [calls EXCEPT ![i] = Ended(@, 200)]
                 /\ UNCHANGED <<backend_integration, instances, sessions>>
            ELSE /\ calls' = [calls EXCEPT
                        ![i].pc = "updating",
                        ![i].trace = Append(@, "update_attendance_records")]
                 /\ backend_integration' = IntegrationInUse.backend
                 /\ instances' = IntegrationInUse.instances
                 /\ sessions' = IntegrationInUse.sessions
    /\ UNCHANGED <<face_recognizer, lifespan, startup_log, face_database>>
    /\ UNCHANGED requestvars

\* analyze_classroom_image from the return of update_attendance_records to
\* `await backend.notify_recognition_complete(...)`; an exception raised by
\* the update would end in the inner except clause
AnalyzeNotify ==
    /\ \E i \in 1..Len(calls), outcome \in Outcomes :
         LET update_success == method_return("update_attendance_records", outcome)
             returned == [calls[i] EXCEPT
                            !.trace = Append(@, "update_returned"),
                            !.update_result = update_success,
                            !.attendance_updated =
                                IF update_success = "True" THEN "True" ELSE "False"]
         IN
         /\ calls[i].kind = "analyze"
         /\ calls[i].pc = "updating"
         /\ IF update_success # "raised" /\ AfterUpdate(update_success) = "notify"
            THEN /\ calls' = [calls EXCEPT ![i] =
                        [returned EXCEPT
                            !.pc = "notifying",
                            !.trace = Append(@, "notify_recognition_complete")]]
                 /\ instances' = ensure_session(instances, backend_integration).instances
                 /\ sessions' = ensure_session(instances, backend_integration).sessions
            ELSE /\ calls' = [calls EXCEPT ![i] = Ended(returned, 200)]
                 /\ UNCHANGED <<instances, sessions>>
    /\ UNCHANGED <<face_recognizer, lifespan, startup_log, backend_integration,
                   face_database>>
    /\ UNCHANGED requestvars

\* analyze_classroom_image from the return of notify_recognition_complete,
\* whose value is dropped, to the return of the response
AnalyzeReturn ==
    /\ \E i \in 1..Len(calls) :
         /\ calls[i].kind = "analyze"
         /\ calls[i].pc = "notifying"
         /\ calls' = [calls EXCEPT ![i] =
                Ended([@ EXCEPT !.trace = Append(@, "notify_returned")], 200)]
    /\ UNCHANGED <<face_database, lifecyclevars>>
    /\ UNCHANGED requestvars

\* enroll_student's three refusals, in the order of the code: no face,
\* several faces, no embedding for the one face
enroll_error(faces, embedding) ==
    IF faces = 0 THEN "no_face"
    ELSE IF faces > 1 THEN "multiple_faces"
    ELSE IF ~embedding THEN "no_embedding"
    ELSE "none"

\* enroll_student from the read to the saving of the enrollment image:
\* detection, the three refusals, then add_student_to_database, which
\* reports success or failure
EnrollStudent ==
    /\ \E i \in 1..Len(calls), usable \in BOOLEAN, success \in BOOLEAN :
         \E extracted \in SUBSET calls[i].photo :
         /\ calls[i].kind = "enroll-student"
         /\ calls[i].pc = "reading"
         /\ IF ~usable
            THEN /\ calls' = [calls EXCEPT ![i] = Ended(@, 400)]
                 /\ UNCHANGED face_database
            ELSE IF enroll_error(Cardinality(calls[i].photo),
                                 extracted = calls[i].photo) # "none"
            THEN /\ calls' = [calls EXCEPT ![i] =
                        Ended([@ EXCEPT !.detected = TRUE,
                                        !.extracted = extracted], 400)]
                 /\ UNCHANGED face_database
            ELSE IF ~success
            THEN /\ calls' = [calls EXCEPT ![i] =
                        Ended([@ EXCEPT !.detected = TRUE,
                                        !.extracted = extracted], 500)]
                 /\ UNCHANGED face_database
            ELSE /\ calls' = [calls EXCEPT ![i].pc = "saving",
                                           ![i].detected = TRUE,
                                           ![i].extracted = extracted,
                                           ![i].changed = TRUE]
                 /\ face_database' = AddStudent(face_database, calls[i].student)
    /\ UNCHANGED lifecyclevars
    /\ UNCHANGED requestvars

\* enroll_student from the saving of the enrollment image to the return; a
\* failed write ends the request with 500
EnrollSave ==
    /\ \E i \in 1..Len(calls), saved \in BOOLEAN :
         /\ calls[i].kind = "enroll-student"
         /\ calls[i].pc = "saving"
         /\ calls' = [calls EXCEPT ![i] = Ended(@, IF saved THEN 200 ELSE 500)]
    /\ UNCHANGED <<face_database, lifecyclevars>>
    /\ UNCHANGED requestvars

\* ai-service/main.py enroll_student_face from the read to the return.
\* process_image_for_faces skips every detected face whose embedding it
\* cannot extract and reports as facesDetected the number of embeddings it
\* extracted
EnrollStudentFace ==
    /\ \E i \in 1..Len(calls) :
         \E extracted \in SUBSET calls[i].photo :
         LET facesDetected == Cardinality(extracted) IN
         /\ calls[i].kind = LegacyEnroll
         /\ calls[i].pc = "reading"
         /\ calls' = [calls EXCEPT ![i] =
                IF facesDetected = 0 \/ facesDetected > 1
                THEN Ended([@ EXCEPT !.detected = TRUE,
                                     !.extracted = extracted], 400)
                ELSE Ended([@ EXCEPT !.detected = TRUE,
                                     !.extracted = extracted,
                                     !.embedding = TRUE], 200)]
    /\ UNCHANGED <<face_database, lifecyclevars>>
    /\ UNCHANGED requestvars

NextService ==
    \/ StartupBegin
    \/ StartupEnd
    \/ Admit
    \/ ServeDetection
    \/ AnalyzeLoad
    \/ AnalyzeClassroom
    \/ AnalyzeUpdate
    \/ AnalyzeNotify
    \/ AnalyzeReturn
    \/ EnrollStudent
    \/ EnrollSave
    \/ EnrollStudentFace

SpecService == InitService /\ [][NextService]_vars

(***************************************************************************)
(* Properties.                                                             *)
(***************************************************************************)
Done == pc = "done"

\* face k (1-based position among the processed faces) has a match
FaceMatched(k) ==
    \E i \in 1..Len(matches) : matches[i].faceIndex = valid_face_indices[k]

\* the first maximum of face k's row reaches the threshold
Qualifies(k) == best_log[k].ok

\* the student at the first maximum of face k's row
BestStudent(k) == student_ids[best_log[k].idx + 1]

UniqueMatches(ms) ==
    \A i, j \in 1..Len(ms) :
        i # j => /\ ms[i].studentId # ms[j].studentId
                 /\ ms[i].faceIndex # ms[j].faceIndex

\* C1: in the matches list being built and in the response, no studentId
\* and no faceIndex occurs in two matches, also when the roster names one
\* studentId at several positions.
C1_InjectiveMatching ==
    UniqueMatches(matches) /\ UniqueMatches(response.matches)

\* a successful call on a roster naming one student twice, whose two faces
\* have their best scores at the two positions, both reaching the threshold
C1_Witness ==
    /\ Done
    /\ response.status = 200
    /\ Len(student_ids) = 2
    /\ student_ids[1] = student_ids[2]
    /\ Len(best_log) = 2
    /\ best_log[1].idx = 0
    /\ best_log[2].idx = 1
    /\ Qualifies(1)
    /\ Qualifies(2)
    /\ Len(response.matches) = 1

\* C2: in every successful report, the number of matches plus the number of
\* unmatched faces equals the number of detected faces reported.
C2_CountsAddUp ==
    (Done /\ response.status = 200 /\ response.body) =>
        response.totalMatches + response.unmatchedFaces = response.facesDetected

\* C3: the confidence written into every match of the response is at least
\* the threshold of the call.
C3_ScoreAtLeastThreshold ==
    \A i \in 1..Len(response.matches) :
        FloatGe(response.matches[i].confidence, threshold)

\* C4: a processed face is matched exactly when the first maximum of its row
\* reaches the threshold and no earlier face has the same student at a first
\* maximum reaching the threshold; and it is matched to that student.
C4_GreedyFirstComeFirstServed ==
    \A k \in 1..Len(best_log) :
        LET expected ==
                /\ Qualifies(k)
                /\ \A j \in 1..(k - 1) :
                       ~(Qualifies(j) /\ BestStudent(j) = BestStudent(k))
        IN  /\ FaceMatched(k) <=> expected
            /\ \A i \in 1..Len(matches) :
                   matches[i].faceIndex = valid_face_indices[k] =>
                       Qualifies(k) /\ matches[i].studentId = BestStudent(k)

\* C5: a processed face whose best-scoring student was consumed by an
\* earlier face has no match; and under the default threshold, when F0 and
\* F1 both have S0 at their first maximum with a score reaching the threshold
\* (0.9 and 0.95) and S1 reaches the threshold for F1 (0.8), the matches are
\* exactly F0 with S0.
C5_NoSecondBestFallback ==
    /\ \A k \in 1..Len(best_log) :
           (/\ best_log[k].idx >= 0
            /\ \E i \in 1..Len(matches) :
                   /\ matches[i].faceIndex < valid_face_indices[k]
                   /\ matches[i].studentId = BestStudent(k))
           => ~FaceMatched(k)
    /\ (/\ Len(best_log) = 2
        /\ student_ids = <<"S0", "S1">>
        /\ threshold = DefaultThreshold
        /\ best_log[1].idx = 0
        /\ best_log[1].ok
        /\ best_log[2] = [idx |-> 0, ok |-> TRUE, alt |-> TRUE])
       => /\ Len(matches) = 1
          /\ matches[1].studentId = "S0"
          /\ matches[1].faceIndex = valid_face_indices[1]

\* the roster scan of a face is complete: best_match_idx and scan are those
\* of that face
ScanComplete ==
    \/ service = "ai_service" /\ pc = "scan"
                              /\ ref_idx = Len(reference_embeddings)
    \/ service = "ai-service" /\ pc = "next_face" /\ det_idx > 0

\* the roster position student_ids[best_match_idx] reads
SelectedPosition ==
    IF best_match_idx >= 0 THEN best_match_idx
    ELSE Len(student_ids) + best_match_idx

\* C6: after the roster scan of a face whose row has a defined score, the
\* selected roster entry is the first occurrence of the row's highest score.
C6_FirstMaximumSelected ==
    (ScanComplete /\ scan.idx >= 0) => SelectedPosition = scan.idx

\* C7: a call that extracted embeddings and ends while some detected and
\* some reference embedding differ in length reports a dimension mismatch
\* (the dimension_mismatch report, or sklearn's incompatible-dimension
\* error) and has computed no similarity score.
C7_DimensionMismatchRejected ==
    (/\ Done
     /\ Len(detected_embeddings) > 0
     /\ \E f \in 1..Len(detected_embeddings),
           r \in 1..Len(reference_embeddings) :
            detected_embeddings[f].dim # reference_embeddings[r].dim)
    => /\ response.error \in {"dimension_mismatch", "incompatible_dimension"}
       /\ scores_computed = 0

\* C8: a call whose detector returned no face ends successfully with zero
\* matches, zero unmatched faces and a detected count of 0.
C8_NoFaceSucceeds ==
    (Done /\ detector_ran /\ detected_faces = 0) =>
        /\ response.status = 200
        /\ response.error = "none"
        /\ response.matches = <<>>
        /\ response.totalMatches = 0
        /\ response.unmatchedFaces = 0
        /\ response.facesDetected = 0

\* a finished call with a non-empty roster whose detector returned no face
C8_Witness ==
    /\ Done
    /\ detector_ran
    /\ detected_faces = 0
    /\ Len(reference_embeddings) > 0
    /\ response.body

\* C9: a call whose detector ran and that ends with no detected embedding
\* returns a successful zero-match report.
C9_EmptyDetectedNeverErrors ==
    (Done /\ detector_ran /\ Len(detected_embeddings) = 0) =>
        /\ response.status = 200
        /\ response.error = "none"
        /\ response.totalMatches = 0

\* C10: a call whose roster is supplied empty (no reference embedding or no
\* student id) ends with the 400 missing-roster error and no report.
C10_EmptyRosterRejected ==
    (Done /\ (Len(reference_embeddings) = 0 \/ Len(student_ids) = 0)) =>
        /\ response.status = 400
        /\ response.error = "missing_reference"
        /\ ~response.body

\* a finished call that supplied student ids and no reference embedding
C10_Witness ==
    /\ Done
    /\ Len(reference_embeddings) = 0
    /\ Len(student_ids) > 0
    /\ response.status = 400

\* the call failed with the length-mismatch error before anything else was
\* attempted
LengthMismatchRaisedFirst ==
    /\ response.status = 400
    /\ response.error = "length_mismatch"
    /\ ~response.body
    /\ ~image_read
    /\ ~detector_ran
    /\ scores_computed = 0

\* C11 (as stated): a call whose studentIds and referenceEmbeddings differ in
\* length ends with the length-mismatch error, with no image read, no
\* detection run and no similarity computed.
C11_LengthMismatchRaisedFirst ==
    (Done /\ Len(student_ids) # Len(reference_embeddings)) =>
        LengthMismatchRaisedFirst

\* C11 (amended): the same for a call whose two lists are both non-empty; a
\* call with an empty list ends with the missing-roster error instead.
C11_NonEmptyLengthMismatchRaisedFirst ==
    (/\ Done
     /\ Len(student_ids) > 0
     /\ Len(reference_embeddings) > 0
     /\ Len(student_ids) # Len(reference_embeddings))
    => LengthMismatchRaisedFirst

\* a finished call with one reference embedding and two student ids
C11_Witness ==
    /\ Done
    /\ Len(reference_embeddings) = 1
    /\ Len(student_ids) = 2
    /\ response.error = "length_mismatch"

\* every embedding of the call has one length
SameLengthEverywhere ==
    \A f \in 1..Len(detected_embeddings), r \in 1..Len(reference_embeddings) :
        /\ detected_embeddings[f].dim = reference_embeddings[r].dim
        /\ reference_embeddings[r].dim = reference_embeddings[1].dim

\* C12: a call that reached matching with embeddings of one length, one of
\* them holding a NaN or an infinity, ends with an error naming the invalid
\* embedding (sklearn's "Input contains NaN" counted as one); it does not
\* end successfully.
C12_NonFiniteRejected ==
    (/\ Done
     /\ Len(detected_embeddings) > 0
     /\ SameLengthEverywhere
     /\ HasNonFinite(detected_embeddings) \/ HasNonFinite(reference_embeddings))
    => /\ response.status # 200
       /\ response.error \in {"invalid_embedding", "input_contains_nan"}

\* C13: wherever a cosine similarity is computed for a pair with a zero-norm
\* vector, the value is exactly 0.0 (not NaN, no exception escaping).
C13_ZeroNormScoresZero ==
    (fn \in CosineFns /\ (args.a.kind = "zero" \/ args.b.kind = "zero")) =>
        result = 0

\* the tiers in increasing order
TierRank(t) ==
    CASE t = "Not_Recognized" -> 0
      [] t = "Low_Confidence" -> 1
      [] t = "Uncertain"      -> 2
      [] t = "Present"        -> 3

\* C14: the classifier returns Present from 0.85, Uncertain from 0.70 below
\* 0.85, Low_Confidence from 0.60 below 0.70 and Not_Recognized below 0.60,
\* for every confidence in [-1, 1]; and no lower confidence has a higher
\* tier.
C14_ClassifierTiers ==
    fn = "get_status_from_confidence" =>
        LET x == args.confidence
        IN  /\ x >= 85000 => result = "Present"
            /\ (70000 <= x /\ x < 85000) => result = "Uncertain"
            /\ (60000 <= x /\ x < 70000) => result = "Low_Confidence"
            /\ x < 60000 => result = "Not_Recognized"
            /\ result \in {"Present", "Uncertain", "Low_Confidence",
                           "Not_Recognized"}
            /\ \A y \in Confidences :
                   y <= x => TierRank(get_status_from_confidence(y))
                                 <= TierRank(result)

\* the classifier called exactly at the high cut point
C14_Witness ==
    /\ fn = "get_status_from_confidence"
    /\ args.confidence = 85000
    /\ result = "Present"

\* C15: every match of the response carries a status, and it is the
\* classifier's tier for the match's confidence.
C15_MatchesCarryTier ==
    \A i \in 1..Len(response.matches) :
        /\ "status" \in DOMAIN response.matches[i]
        /\ response.matches[i].status =
               get_status_from_confidence(response.matches[i].confidence)

\* the face loop was entered: the length test of ai_service passed, or the
\* similarity matrix of ai-service was computed
LoopEntered ==
    IF service = "ai_service"
    THEN /\ detector_ran
         /\ detected_faces > 0
         /\ DetectedDim(detected_embeddings) = ReferenceDim(reference_embeddings)
    ELSE scores_computed > 0

\* every embedding of the call has ordinary values, so every score is finite
AllOrdinary ==
    /\ \A f \in 1..Len(detected_embeddings) : detected_embeddings[f].kind = "ok"
    /\ \A r \in 1..Len(reference_embeddings) :
           reference_embeddings[r].kind = "ok"

\* C18: a call that entered the face loop with ordinary embeddings ends
\* with a success report (the matching, possibly empty); it does not end
\* with a failure raised inside the loop.
C18_LoopAlwaysReports ==
    (Done /\ LoopEntered /\ AllOrdinary) =>
        /\ response.status = 200
        /\ response.body
        /\ response.matches = matches

\* C19: a call that ends in an error has no match in its response.
C19_ErrorsCarryNoMatches ==
    (Done /\ response.status # 200) =>
        /\ response.matches = <<>>
        /\ response.totalMatches = 0

\* a call with detected embeddings that ended with the dimension-mismatch
\* report
C19_Witness ==
    /\ Done
    /\ response.status = 400
    /\ response.error = "dimension_mismatch"
    /\ Len(detected_embeddings) > 0

\* the decision on face det_idx - 1 has just been taken: scan, best_match_idx
\* and best_similarity are those of that face
Decided == pc = "next_face" /\ det_idx > 0

\* C20: the match of the face just decided names the roster entry at the
\* first maximum of the face's scores, which is a position of the roster
\* with a defined score, and reports that maximum (up to the rounding to
\* four decimals).
C20_MatchSoundness ==
    Decided =>
        \A i \in 1..Len(matches) :
            matches[i].faceIndex = valid_face_indices[det_idx] =>
                /\ scan.idx >= 0
                /\ matches[i].studentId = student_ids[scan.idx + 1]
                /\ Round4(matches[i].confidence) = Round4(scan.sim)

\* C16: the second run of the matcher on the input of the first ends with
\* the same response: the same matches with the same values in the same
\* order, and the same counts.
C16_SameInputSameOutput ==
    (run = 2 /\ pc = "done") => response = first_response

\* a second run that ended with a matched and an unmatched face
C16_Witness ==
    /\ run = 2
    /\ pc = "done"
    /\ Len(response.matches) >= 1
    /\ response.unmatchedFaces >= 1

\* C17: two finished matching calls (/compare, /analyze) of one kind with
\* the same inputs have the same matches, whatever was served between and
\* beside them.
C17_MatchesDependOnOwnInputs ==
    \A a, b \in 1..Len(calls) :
        (/\ calls[a].pc = "done"
         /\ calls[b].pc = "done"
         /\ calls[a].kind \in {"compare", "analyze"}
         /\ calls[a].kind = calls[b].kind
         /\ calls[a].photo = calls[b].photo
         /\ calls[a].roster = calls[b].roster)
        => calls[a].result = calls[b].result

IncreasingFaceIndex(ms) ==
    \A i, j \in 1..Len(ms) : i < j => ms[i].faceIndex < ms[j].faceIndex

\* C21: in the matches list being built and in the response, the matches
\* appear by strictly increasing faceIndex.
C21_MatchesByIncreasingFaceIndex ==
    IncreasingFaceIndex(matches) /\ IncreasingFaceIndex(response.matches)

\* a successful report with two matches
C21_Witness ==
    /\ Done
    /\ response.status = 200
    /\ Len(response.matches) = 2

\* the (face, student) pairs of a response
PairsOf(r) ==
    {<<r.matches[i].faceIndex, r.matches[i].studentId>> :
        i \in 1..Len(r.matches)}

\* C22: on the input of a successful call of ai-service, the matcher of
\* ai_service ends successfully with the same set of (face, student) pairs.
C22_SameMatchingInBoth ==
    (run = 2 /\ pc = "done" /\ first_response.status = 200) =>
        /\ response.status = 200
        /\ PairsOf(response) = PairsOf(first_response)

\* C23: every request method sends its request on an open session, a
\* session that was missing or closed when the method was called having
\* been replaced by a new one first; and close() on a missing or closed
\* session changes no session.
C23_RequestsOnOpenSession ==
    \A i \in 1..Len(calls) :
        /\ calls[i].op \in Methods =>
               /\ calls[i].open
               /\ calls[i].was \in {"missing", "closed"} => calls[i].fresh
        /\ (calls[i].op = "close" /\ calls[i].was \in {"missing", "closed"}) =>
               ~calls[i].changed

\* a request method called after the session of an earlier request was
\* closed
C23_Witness ==
    \E i, j \in 1..Len(calls) :
        /\ i < j
        /\ calls[i].op \in Methods
        /\ calls[j].op \in Methods
        /\ calls[j].was = "closed"
        /\ calls[j].fresh
        /\ calls[j].open

\* C24: once cleanup_backend_integration has completed, the global instance
\* is None and every session created is closed.
C24_NothingOpenAfterCleanup ==
    lifespan = "stopped" =>
        /\ backend_integration = 0
        /\ \A s \in 1..Len(sessions) : sessions[s] = "closed"

\* C25: a request method never raises to its caller; it returns its success
\* value only after an answer with status 200, and its failure value ([]
\* for the two fetch methods, False for update, notify and health_check,
\* None for get_session_info) after any other answer and after an exception.
C25_MethodsNeverRaise ==
    \A i \in 1..Len(calls) :
        (calls[i].op \in Methods /\ calls[i].pc = "done") =>
            /\ calls[i].result # "raised"
            /\ calls[i].result \in {SuccessValue(calls[i].op),
                                    FailureValue(calls[i].op)}
            /\ calls[i].result = SuccessValue(calls[i].op) =>
                   calls[i].outcome \in {"200", "200_invalid_body"}
            /\ calls[i].outcome \in {"non200", "exception"} =>
                   calls[i].result = FailureValue(calls[i].op)

\* one method has returned after an exception and another after an answer
\* with another status than 200
C25_Witness ==
    \E i, j \in 1..Len(calls) :
        /\ calls[i].op \in Methods
        /\ calls[i].pc = "done"
        /\ calls[i].outcome = "exception"
        /\ calls[j].op \in Methods
        /\ calls[j].pc = "done"
        /\ calls[j].outcome = "non200"

\* the calls /analyze makes to the backend about attendance, and their
\* returns, in the order the claim asks for
AttendanceTrace ==
    <<"update_attendance_records", "update_returned",
      "notify_recognition_complete", "notify_returned">>

IsPrefix(s, t) ==
    /\ Len(s) <= Len(t)
    /\ \A k \in 1..Len(s) : s[k] = t[k]

\* C26: /analyze calls the backend about attendance only when it recognised
\* a face; it then sends the update first and the notification after the
\* update has returned, whatever the update returned; and a failed update
\* ends in a 200 answer whose attendance_updated is false.
C26_UpdateThenNotify ==
    \A i \in 1..Len(calls) :
        calls[i].kind = "analyze" =>
            /\ calls[i].trace # <<>> => calls[i].recognized # {}
            /\ IsPrefix(calls[i].trace, AttendanceTrace)
            /\ calls[i].update_result # "none" => Len(calls[i].trace) >= 3
            /\ (calls[i].pc = "done" /\ calls[i].status = 200
                  /\ calls[i].recognized # {}) =>
                   calls[i].trace = AttendanceTrace
            /\ (calls[i].pc = "done" /\ calls[i].update_result = "False") =>
                   /\ calls[i].status = 200
                   /\ calls[i].attendance_updated = "False"
            /\ (calls[i].pc = "done" /\ calls[i].update_result = "True") =>
                   calls[i].attendance_updated = "True"

\* an /analyze request that recognised a face has ended after a failed
\* update
C26_Witness ==
    \E i \in 1..Len(calls) :
        /\ calls[i].kind = "analyze"
        /\ calls[i].pc = "done"
        /\ calls[i].recognized # {}
        /\ calls[i].update_result = "False"
        /\ calls[i].trace = AttendanceTrace

\* every step of startup_event completed without an exception
StartupSucceeded ==
    startup_log = <<"recognizer", "directories", "health_check">>

\* startup_event has returned
StartupReturned == lifespan \notin {"starting", "health_check"}

\* the request was answered 503 and its handler did nothing
Refused(r) ==
    /\ r.pc = "done"
    /\ r.status = 503
    /\ ~r.detected
    /\ ~r.matched
    /\ ~r.changed

\* while the recognizer is None, every request to an endpoint that takes
\* the recognizer is refused and the database is untouched
GateHolds ==
    face_recognizer = "None" =>
        /\ \A i \in 1..Len(calls) :
               calls[i].kind \in Gated => Refused(calls[i])
        /\ face_database = {}

\* C27, as stated: while the recognizer is None the endpoints that take it
\* answer 503 and do nothing, and in every state the recognizer is non-None
\* only if the whole startup sequence succeeded.
C27_ReadinessGate ==
    /\ GateHolds
    /\ face_recognizer # "None" => StartupSucceeded

\* C27, amended: while the recognizer is None the endpoints that take it
\* answer 503 and do nothing, and once startup_event has returned, which is
\* when requests are served, the recognizer is non-None only if the whole
\* startup sequence succeeded.
C27_ReadinessGateOnceStarted ==
    /\ GateHolds
    /\ (StartupReturned /\ face_recognizer # "None") => StartupSucceeded

\* the directories could not be created after the recognizer was: the
\* recognizer is None again and a request has been refused
C27_Witness ==
    /\ StartupReturned
    /\ face_recognizer = "None"
    /\ startup_log = <<"recognizer">>
    /\ \E i \in 1..Len(calls) :
           /\ calls[i].kind \in Gated
           /\ calls[i].status = 503

\* C28: an enrollment adds the student, or returns an embedding, only for a
\* photo with exactly one detected face whose embedding was extracted; a
\* photo with no face or several faces, or a failed extraction, is answered
\* 400 and leaves the database as it was.
C28_EnrollmentNeedsOneFace ==
    \A i \in 1..Len(calls) :
        (calls[i].kind \in {"enroll-student", LegacyEnroll} /\ calls[i].detected) =>
            /\ (calls[i].changed \/ calls[i].embedding) =>
                   /\ Cardinality(calls[i].photo) = 1
                   /\ calls[i].extracted = calls[i].photo
            /\ (Cardinality(calls[i].photo) # 1
                  \/ calls[i].extracted # calls[i].photo) =>
                   /\ calls[i].status = 400
                   /\ ~calls[i].changed
                   /\ ~calls[i].embedding

RECURSIVE best_match(_, _, _, _)
\* the selection of compare_faces for one face, applied to a list of
\* scores: best_match_idx = -1, best_similarity = -1.0, and every score
\* greater than the best so far replaces it
best_match(scores, r, idx, sim) ==
    IF r >= Len(scores) THEN idx
    ELSE IF FloatGt(scores[r + 1], sim)
    THEN best_match(scores, r + 1, r, scores[r + 1])
    ELSE best_match(scores, r + 1, idx, sim)

=============================================================================
